---- MODULE Spec2Model ----
(***************************************************************************)
(* The animation-performance subsystem of the portfolio site:              *)
(*   - AnimationQueue (lib/animation-queue.ts): priority queue of visual   *)
(*     effects, started from requestAnimationFrame callbacks under a       *)
(*     concurrency limit and a per-frame time budget;                      *)
(*   - AnimationPerformanceMonitor (lib/animation-performance.ts, second   *)
(*     half of the same source file): rolling window of frame times from   *)
(*     which a quality level is derived;                                   *)
(*   - the theme button of OptimizedHeader, which goes through the queue.  *)
(* and two components with timers of their own:                            *)
(*   - ChatWidget: messages, pending placeholders and the reply timers;    *)
(*   - EnhancedContact: the contact form, its validation and submission.   *)
(* Times are in hundredths of a millisecond (16.67 ms = 1667).             *)
(***************************************************************************)
EXTENDS Integers, Sequences, FiniteSets, TLC

VARIABLES
    queue,               \* AnimationQueue.queue: sequence of items
    executing,           \* AnimationQueue.executing: the keys of the Map
    maxConcurrent,       \* AnimationQueue.maxConcurrent
    isRunning,           \* AnimationQueue.isRunning
    frameBudget,         \* AnimationQueue.frameBudget
    frameStartTime,      \* AnimationQueue.frameStartTime
    rafId,               \* AnimationQueue.rafId (NoRaf = null)
    completedAnimations, \* AnimationQueue.completedAnimations
    scheduled,           \* browser: handles of the queue's pending frame callbacks
    now,                 \* browser: performance.now()
    pc,                  \* "idle", or "frame" while the process callback runs
    inflight,            \* executions suspended at an await: id -> how many
    calls,               \* callbacks invoked by the last handler, in order
    frameTimings,        \* monitor.frameTimings
    lastFrameTime,       \* monitor.lastFrameTime
    droppedFrames,       \* monitor.droppedFrames
    frames,              \* browser: frame callbacks the monitor has received
    qualityLevel,        \* monitor.qualityLevel
    activeAnimations,    \* monitor.activeAnimations
    theme,               \* next-themes: the theme of the last render
    clicks,              \* number of clicks on the theme button
    setThemeCalls,       \* number of calls of setTheme
    notifications,       \* number of calls of monitor.notifyCallbacks()
    history,             \* browser: the frame times measured so far, in order
    cleanupsDue,         \* id -> executions suspended at an await, less the
                         \* cleanup calls made for executions of that id
    messages,            \* ChatWidget: messages
    input,               \* ChatWidget: input
    timers,              \* ChatWidget: texts of the pending reply timers
    formData,            \* EnhancedContact: formData
    errors,              \* EnhancedContact: errors
    isSubmitting,        \* EnhancedContact: isSubmitting
    submitStatus,        \* EnhancedContact: submitStatus
    submitPending,       \* EnhancedContact: handleSubmit awaits its 2 s timer
    resetTimers          \* EnhancedContact: pending 5 s timers

queueVars   == <<queue, executing, maxConcurrent, isRunning, frameBudget,
                 frameStartTime, rafId, completedAnimations>>
browserVars == <<scheduled, now, pc, inflight, calls>>
windowVars  == <<frameTimings, lastFrameTime, droppedFrames, frames,
                 notifications, history>>
monitorVars == <<windowVars, qualityLevel, activeAnimations>>
themeVars   == <<theme, clicks, setThemeCalls>>
chatVars    == <<messages, input, timers>>
formVars    == <<formData, errors, isSubmitting, submitStatus, submitPending,
                 resetTimers>>
pageVars    == <<chatVars, formVars>>
vars == <<queueVars, browserVars, monitorVars, themeVars, cleanupsDue, pageVars>>

----------------------------------------------------------------------------
(* Bounds of the model *)

MaxQueue   == 2      \* add() is not called while this many items are queued
MaxHandles == 2      \* frame-callback handles the browser hands out
MaxClicks  == 3      \* clicks on the theme button
ClockBase  == 1000   \* performance.now() when a frame callback begins
MaxFrames  == 62     \* frame callbacks the monitor receives

Ids       == {"a", "b"}
ThemeId   == "theme-toggle"
AllIds    == Ids \cup {ThemeId}
WorkTimes == {0, 825, 1250, 1650}   \* time one loop iteration may take
Handles   == 1..MaxHandles

----------------------------------------------------------------------------
(* Types and constants of the program *)

CRITICAL == 0
HIGH     == 1
MEDIUM   == 2
LOW      == 3
AnimationPriority == {CRITICAL, HIGH, MEDIUM, LOW}

QualityLevel == {"ultra", "high", "medium", "low", "minimal"}

DefaultMaxConcurrent == 3
DefaultFrameBudget   == 1667
CompletedLimit       == 100
NoRaf                == 0

\* AnimationQueueItem; target is what the execute closure of the theme
\* button passes to setTheme ("none" for every other item)
AnimationQueueItem ==
    [id: AllIds, priority: AnimationPriority, cleanup: BOOLEAN,
     target: {"none", "dark", "light"}]

\* the items callers add: those with id "a" have a cleanup callback, those
\* with id "b" have none
hasCleanup(id) == id = "a"

Items == {it \in AnimationQueueItem :
            it.id \in Ids /\ it.target = "none" /\ it.cleanup = hasCleanup(it.id)}

ThemeItem(t) ==
    [id |-> ThemeId, priority |-> CRITICAL, cleanup |-> FALSE, target |-> t]

Opposite(t) == IF t = "dark" THEN "light" ELSE "dark"

----------------------------------------------------------------------------
(* Helpers over the data structures *)

RECURSIVE findIndexSamePriority(_, _)
\* findIndex with >= for >: the item goes before the items of its priority
findIndexSamePriority(q, p) ==
    IF q = <<>> THEN 0
    ELSE IF Head(q).priority >= p THEN 1
    ELSE IF findIndexSamePriority(Tail(q), p) = 0 THEN 0
    ELSE 1 + findIndexSamePriority(Tail(q), p)

RECURSIVE findIndex(_, _)
\* index (from 1) of the first element with a greater priority, 0 if none
findIndex(q, p) ==
    IF q = <<>> THEN 0
    ELSE IF Head(q).priority > p THEN 1
    ELSE IF findIndex(Tail(q), p) = 0 THEN 0
    ELSE 1 + findIndex(Tail(q), p)

\* queue.push(item) or queue.splice(insertIndex, 0, item)
insertItem(q, item) ==
    IF findIndex(q, item.priority) = 0 THEN Append(q, item)
    ELSE SubSeq(q, 1, findIndex(q, item.priority) - 1) \o <<item>>
         \o SubSeq(q, findIndex(q, item.priority), Len(q))

QueueIds(q) == {q[i].id : i \in 1..Len(q)}

\* requestAnimationFrame: a handle that names no pending callback
NewHandle(s) == CHOOSE h \in Handles \ s : \A g \in Handles \ s : h <= g

InFlightOf(id) == inflight[id]

InFlightTotal == inflight["a"] + inflight["b"]

----------------------------------------------------------------------------
(* AnimationPerformanceMonitor *)

WindowSize   == 60     \* frames kept in frameTimings
DroppedLimit == 3300   \* a frame longer than 33 ms counts as dropped

RECURSIVE SumSeq(_)
SumSeq(w) == IF w = <<>> THEN 0 ELSE Head(w) + SumSeq(Tail(w))

\* fps >= n, where fps = 1000 / avgFrameTime and avgFrameTime = sum / len
\* (a window of zero-length frames gives fps = Infinity)
FpsAtLeast(sum, len, n) == 100000 * len >= n * sum

\* droppedFrameRatio < pct / 100, the ratio being d / len
RatioBelow(d, len, pct) == 100 * d < pct * len

\* adjustQuality() without the tests of the dropped-frame ratio
adjustQualityByFpsOnly(sum, len, d) ==
    IF FpsAtLeast(sum, len, 55) THEN "ultra"
    ELSE IF FpsAtLeast(sum, len, 50) THEN "high"
    ELSE IF FpsAtLeast(sum, len, 40) THEN "medium"
    ELSE IF FpsAtLeast(sum, len, 30) THEN "low"
    ELSE "minimal"

\* the level adjustQuality() assigns for a window of len frames that sum up
\* to sum, and dropped counter d
adjustQuality(sum, len, d) ==
    IF FpsAtLeast(sum, len, 55) /\ RatioBelow(d, len, 5) THEN "ultra"
    ELSE IF FpsAtLeast(sum, len, 50) /\ RatioBelow(d, len, 10) THEN "high"
    ELSE IF FpsAtLeast(sum, len, 40) /\ RatioBelow(d, len, 15) THEN "medium"
    ELSE IF FpsAtLeast(sum, len, 30) THEN "low"
    ELSE "minimal"

getMaxConcurrentAnimations(q) ==
    CASE q = "ultra"   -> 10
      [] q = "high"    -> 7
      [] q = "medium"  -> 5
      [] q = "low"     -> 3
      [] q = "minimal" -> 1
      [] OTHER         -> 5

\* shouldSkipAnimation() skipping every priority at capacity
shouldSkipAnyAtCapacity(q, active, priority) ==
    IF Cardinality(active) >= getMaxConcurrentAnimations(q)
    THEN priority >= CRITICAL
    ELSE CASE q = "minimal" -> priority > CRITICAL
           [] q = "low"     -> priority > HIGH
           [] q = "medium"  -> priority > MEDIUM
           [] OTHER         -> FALSE

shouldSkipAnimation(q, active, priority) ==
    IF Cardinality(active) >= getMaxConcurrentAnimations(q)
    THEN priority >= MEDIUM
    ELSE CASE q = "minimal" -> priority > CRITICAL
           [] q = "low"     -> priority > HIGH
           [] q = "medium"  -> priority > MEDIUM
           [] OTHER         -> FALSE

----------------------------------------------------------------------------
(* AnimationQueue *)

adjustedBudget(q, budget) ==
    CASE q = "minimal" -> 800
      [] q = "low"     -> 1200
      [] q = "medium"  -> 1600
      [] OTHER         -> budget

\* hasFrameBudget() comparing with the configured budget whatever the quality
hasFrameBudgetUnadjusted == now - frameStartTime < frameBudget

hasFrameBudget == now - frameStartTime < adjustedBudget(qualityLevel, frameBudget)

\* the loop condition with <= for < in the comparison with maxConcurrent
CanExecuteMoreOffByOne ==
    /\ Len(queue) > 0
    /\ Cardinality(executing) <= maxConcurrent
    /\ hasFrameBudget

\* the condition of the while loop of the process callback
CanExecuteMore ==
    /\ Len(queue) > 0
    /\ Cardinality(executing) < maxConcurrent
    /\ hasFrameBudget

\* processQueue(): request a frame callback unless rafId is set; the two
\* operators give rafId and the pending callbacks after the call
processQueueRaf(run, raf, sched) ==
    IF run /\ raf = NoRaf THEN NewHandle(sched) ELSE raf

processQueueScheduled(run, raf, sched) ==
    IF run /\ raf = NoRaf THEN sched \cup {NewHandle(sched)} ELSE sched

\* add(item) without the test of the executing map
addIgnoringExecuting(item) ==
    IF item.id \in completedAnimations
    THEN UNCHANGED <<queue, activeAnimations, rafId, scheduled>>
    ELSE /\ queue' = insertItem(queue, item)
         /\ activeAnimations' = activeAnimations \cup {item.id}
         /\ rafId' = processQueueRaf(isRunning, rafId, scheduled)
         /\ scheduled' = processQueueScheduled(isRunning, rafId, scheduled)

\* add(item): what the method changes
add(item) ==
    IF item.id \in completedAnimations \/ item.id \in executing
    THEN UNCHANGED <<queue, activeAnimations, rafId, scheduled>>
    ELSE /\ queue' = insertItem(queue, item)
         /\ activeAnimations' = activeAnimations \cup {item.id}
         /\ rafId' = processQueueRaf(isRunning, rafId, scheduled)
         /\ scheduled' = processQueueScheduled(isRunning, rafId, scheduled)

\* add(item), called from an event handler or an effect of a component
Add(item) ==
    /\ pc = "idle"
    /\ Len(queue) < MaxQueue
    /\ calls' = <<>>
    /\ add(item)
    /\ UNCHANGED <<executing, maxConcurrent, isRunning, frameBudget,
                   frameStartTime, completedAnimations, now, pc, inflight,
                   windowVars, qualityLevel, themeVars, cleanupsDue, pageVars>>

\* toggleTheme of OptimizedHeader: a click on the theme button
Click ==
    /\ pc = "idle"
    /\ Len(queue) < MaxQueue
    /\ clicks < MaxClicks
    /\ clicks' = clicks + 1
    /\ calls' = <<>>
    /\ add(ThemeItem(Opposite(theme)))
    /\ UNCHANGED <<executing, maxConcurrent, isRunning, frameBudget,
                   frameStartTime, completedAnimations, now, pc, inflight,
                   windowVars, qualityLevel, theme, setThemeCalls,
                   cleanupsDue, pageVars>>

\* start() (resume() is a call of start())
Start ==
    /\ pc = "idle"
    /\ calls' = <<>>
    /\ IF isRunning
       THEN UNCHANGED <<isRunning, rafId, scheduled>>
       ELSE /\ isRunning' = TRUE
            /\ rafId' = processQueueRaf(TRUE, rafId, scheduled)
            /\ scheduled' = processQueueScheduled(TRUE, rafId, scheduled)
    /\ UNCHANGED <<queue, executing, maxConcurrent, frameBudget,
                   frameStartTime, completedAnimations, now, pc, inflight,
                   monitorVars, themeVars, cleanupsDue, pageVars>>

\* pause()
Pause ==
    /\ pc = "idle"
    /\ calls' = <<>>
    /\ isRunning' = FALSE
    /\ IF rafId # NoRaf
       THEN /\ scheduled' = scheduled \ {rafId}
            /\ rafId' = NoRaf
       ELSE UNCHANGED <<rafId, scheduled>>
    /\ UNCHANGED <<queue, executing, maxConcurrent, frameBudget,
                   frameStartTime, completedAnimations, now, pc, inflight,
                   monitorVars, themeVars, cleanupsDue, pageVars>>

\* clear(priority) removing the items of that priority and of the less
\* urgent ones
ClearFrom(priority) ==
    /\ pc = "idle"
    /\ calls' = <<>>
    /\ queue' = SelectSeq(queue, LAMBDA it : it.priority < priority)
    /\ activeAnimations' = activeAnimations \
           {queue[i].id : i \in {j \in 1..Len(queue) : queue[j].priority >= priority}}
    /\ UNCHANGED <<executing, maxConcurrent, isRunning, frameBudget,
                   frameStartTime, rafId, completedAnimations, scheduled, now,
                   pc, inflight, windowVars, qualityLevel, themeVars,
                   cleanupsDue, pageVars>>

\* clear(priority)
Clear(priority) ==
    /\ pc = "idle"
    /\ calls' = <<>>
    /\ queue' = SelectSeq(queue, LAMBDA it : it.priority # priority)
    /\ activeAnimations' = activeAnimations \
           {queue[i].id : i \in {j \in 1..Len(queue) : queue[j].priority = priority}}
    /\ UNCHANGED <<executing, maxConcurrent, isRunning, frameBudget,
                   frameStartTime, rafId, completedAnimations, scheduled, now,
                   pc, inflight, windowVars, qualityLevel, themeVars,
                   cleanupsDue, pageVars>>

\* clear()
ClearAll ==
    /\ pc = "idle"
    /\ calls' = <<>>
    /\ queue' = <<>>
    /\ activeAnimations' = activeAnimations \ QueueIds(queue)
    /\ UNCHANGED <<executing, maxConcurrent, isRunning, frameBudget,
                   frameStartTime, rafId, completedAnimations, scheduled, now,
                   pc, inflight, windowVars, qualityLevel, themeVars,
                   cleanupsDue, pageVars>>

\* setMaxConcurrent(max): what the method changes
setMaxConcurrent(max) ==
    /\ maxConcurrent' = max
    /\ rafId' = processQueueRaf(isRunning, rafId, scheduled)
    /\ scheduled' = processQueueScheduled(isRunning, rafId, scheduled)

----------------------------------------------------------------------------
(* The frame callback of the queue and executeAnimation *)

\* what the log of invoked callbacks holds: the item's callbacks and the
\* settling of its promise, and the items started or skipped by the loop
Ev(fn, id, result) == [fn |-> fn, id |-> id, result |-> result]

RunEv(fn, item, result) ==
    [fn |-> fn, id |-> item.id, result |-> result, priority |-> item.priority]

\* the finally block of executeAnimation: the callbacks it invokes ...
finallyCalls(id, cleanup, cleanupThrows) ==
    IF cleanup
    THEN <<Ev("cleanup", id, IF cleanupThrows THEN "throw" ELSE "return")>>
    ELSE <<>>

\* ... and the completed set it leaves
finallyCompleted(done, id) ==
    IF Cardinality(done \cup {id}) > CompletedLimit THEN {} ELSE done \cup {id}

\* requestAnimationFrame fires the process callback with handle h
FrameBegin(h) ==
    /\ pc = "idle"
    /\ h \in scheduled
    /\ scheduled' = scheduled \ {h}
    /\ frameStartTime' = now
    /\ pc' = "frame"
    /\ calls' = <<>>
    /\ UNCHANGED <<queue, executing, maxConcurrent, isRunning, frameBudget,
                   rafId, completedAnimations, now, inflight, monitorVars,
                   themeVars, cleanupsDue, pageVars>>

\* one iteration of the while loop whose item is skipped
SkipItem(item) ==
    /\ activeAnimations' = activeAnimations \ {item.id}
    /\ calls' = <<RunEv("skip", item, "skip")>>
    /\ UNCHANGED <<executing, completedAnimations, inflight, themeVars, cleanupsDue>>

\* executeAnimation(item) up to its first await: execute() returns a value
\* or throws and the item has no duration, so that the finally block runs
\* within the call
ExecuteSync(item, result, cleanupThrows) ==
    /\ result \in {"return", "throw"}
    /\ calls' = <<RunEv("execute", item, result)>>
                \o finallyCalls(item.id, item.cleanup, cleanupThrows)
    /\ executing' = (executing \cup {item.id}) \ {item.id}
    /\ completedAnimations' = finallyCompleted(completedAnimations, item.id)
    /\ activeAnimations' = activeAnimations \ {item.id}
    /\ IF item.target # "none" /\ result = "return"
       THEN /\ theme' = item.target
            /\ setThemeCalls' = setThemeCalls + 1
            /\ UNCHANGED clicks
       ELSE UNCHANGED themeVars
    /\ UNCHANGED <<inflight, cleanupsDue>>

\* executeAnimation(item) up to its first await: execute() returned a promise
\* or the item has a duration, so that the call is suspended
ExecuteAsync(item) ==
    /\ item \in Items
    /\ calls' = <<RunEv("execute", item, "promise")>>
    /\ executing' = executing \cup {item.id}
    /\ inflight' = [inflight EXCEPT ![item.id] = @ + 1]
    /\ cleanupsDue' = [cleanupsDue EXCEPT
                          ![item.id] = IF item.cleanup THEN @ + 1 ELSE @]
    /\ UNCHANGED <<completedAnimations, activeAnimations, themeVars>>

\* one iteration of the while loop of the process callback, which takes
\* time d
ProcessItem(d) ==
    /\ pc = "frame"
    /\ CanExecuteMore
    /\ queue' = Tail(queue)
    /\ now' = now + d
    /\ IF shouldSkipAnimation(qualityLevel, activeAnimations, Head(queue).priority)
       THEN SkipItem(Head(queue))
       ELSE \/ \E result \in {"return", "throw"}, cleanupThrows \in BOOLEAN :
                 /\ cleanupThrows => Head(queue).cleanup
                 \* the execute closure of the theme button only calls setTheme
                 /\ Head(queue).target # "none" => result = "return"
                 /\ ExecuteSync(Head(queue), result, cleanupThrows)
            \/ ExecuteAsync(Head(queue))
    /\ UNCHANGED <<maxConcurrent, isRunning, frameBudget, frameStartTime,
                   rafId, scheduled, pc, windowVars, qualityLevel, pageVars>>

\* one iteration of the while loop whose item is started and whose execute()
\* calls pause() on the queue before it returns or suspends
ProcessItemPausing(d) ==
    /\ pc = "frame"
    /\ CanExecuteMore
    /\ Head(queue) \in Items
    /\ ~shouldSkipAnimation(qualityLevel, activeAnimations, Head(queue).priority)
    /\ queue' = Tail(queue)
    /\ now' = now + d
    /\ isRunning' = FALSE
    /\ IF rafId # NoRaf
       THEN /\ scheduled' = scheduled \ {rafId}
            /\ rafId' = NoRaf
       ELSE UNCHANGED <<rafId, scheduled>>
    /\ \/ \E cleanupThrows \in BOOLEAN :
            /\ cleanupThrows => Head(queue).cleanup
            /\ ExecuteSync(Head(queue), "return", cleanupThrows)
       \/ ExecuteAsync(Head(queue))
    /\ UNCHANGED <<maxConcurrent, frameBudget, frameStartTime, pc, windowVars,
                   qualityLevel, pageVars>>

\* the end of the process callback without the request of the next one
FrameEndNoReschedule ==
    /\ pc = "frame"
    /\ ~CanExecuteMore
    /\ rafId' = NoRaf
    /\ pc' = "idle"
    /\ now' = ClockBase
    /\ calls' = <<>>
    /\ UNCHANGED <<queue, executing, maxConcurrent, isRunning, frameBudget,
                   frameStartTime, completedAnimations, scheduled, inflight,
                   monitorVars, themeVars, cleanupsDue, pageVars>>

\* the end of the process callback: the loop condition is false
FrameEnd ==
    /\ pc = "frame"
    /\ ~CanExecuteMore
    /\ IF Len(queue) > 0 \/ Cardinality(executing) > 0
       THEN /\ rafId' = NewHandle(scheduled)
            /\ scheduled' = scheduled \cup {NewHandle(scheduled)}
       ELSE /\ rafId' = NoRaf
            /\ UNCHANGED scheduled
    /\ pc' = "idle"
    /\ now' = ClockBase
    /\ calls' = <<>>
    /\ UNCHANGED <<queue, executing, maxConcurrent, isRunning, frameBudget,
                   frameStartTime, completedAnimations, inflight, monitorVars,
                   themeVars, cleanupsDue, pageVars>>

\* executeAnimation() whose cleanup and bookkeeping are skipped when the
\* awaited promise rejects
SettleWithoutFinally(id, result, cleanupThrows) ==
    /\ pc = "idle"
    /\ inflight[id] > 0
    /\ result \in {"resolve", "reject"}
    /\ cleanupThrows => hasCleanup(id)
    /\ inflight' = [inflight EXCEPT ![id] = @ - 1]
    /\ IF result = "reject"
       THEN /\ calls' = <<Ev("settle", id, result)>>
            /\ UNCHANGED <<executing, completedAnimations, activeAnimations,
                           cleanupsDue>>
       ELSE /\ calls' = <<Ev("settle", id, result)>>
                        \o finallyCalls(id, hasCleanup(id), cleanupThrows)
            /\ cleanupsDue' = [cleanupsDue EXCEPT
                                  ![id] = IF hasCleanup(id) THEN @ - 1 ELSE @]
            /\ executing' = executing \ {id}
            /\ completedAnimations' = finallyCompleted(completedAnimations, id)
            /\ activeAnimations' = activeAnimations \ {id}
    /\ UNCHANGED <<queue, maxConcurrent, isRunning, frameBudget,
                   frameStartTime, rafId, scheduled, now, pc, windowVars,
                   qualityLevel, themeVars, pageVars>>

\* a suspended executeAnimation(item) resumes for an item with this id: the
\* awaited promise resolved or rejected, or the duration timer fired; then
\* the finally block
Settle(id, result, cleanupThrows) ==
    /\ pc = "idle"
    /\ inflight[id] > 0
    /\ result \in {"resolve", "reject"}
    /\ cleanupThrows => hasCleanup(id)
    /\ inflight' = [inflight EXCEPT ![id] = @ - 1]
    /\ calls' = <<Ev("settle", id, result)>>
                \o finallyCalls(id, hasCleanup(id), cleanupThrows)
    /\ cleanupsDue' = [cleanupsDue EXCEPT
                          ![id] = IF hasCleanup(id) THEN @ - 1 ELSE @]
    /\ executing' = executing \ {id}
    /\ completedAnimations' = finallyCompleted(completedAnimations, id)
    /\ activeAnimations' = activeAnimations \ {id}
    /\ UNCHANGED <<queue, maxConcurrent, isRunning, frameBudget,
                   frameStartTime, rafId, scheduled, now, pc, windowVars,
                   qualityLevel, themeVars, pageVars>>

\* the ids of the executing map that have a cleanup callback
WithCleanup(ids) == {id \in ids : hasCleanup(id)}

\* destroy(): pause(), clear(), then cleanup and unregistration of the
\* executing items in the order of the map, then the two clear() calls.
\* A cleanup that throws ends destroy() there: the ids in 'before' had
\* been visited, the two maps are not cleared.  The owner of a queue
\* destroys it once, while it is running.
Destroy(cleanupThrows, before) ==
    /\ pc = "idle"
    /\ isRunning
    /\ isRunning' = FALSE
    /\ IF rafId # NoRaf
       THEN /\ scheduled' = scheduled \ {rafId}
            /\ rafId' = NoRaf
       ELSE UNCHANGED <<rafId, scheduled>>
    /\ queue' = <<>>
    /\ IF cleanupThrows
       THEN /\ WithCleanup(executing) # {}
            /\ before \subseteq executing \ WithCleanup(executing)
            /\ \E id \in WithCleanup(executing) :
                  /\ calls' = <<Ev("cleanup", id, "throw")>>
                  /\ cleanupsDue' = [cleanupsDue EXCEPT ![id] = @ - 1]
            /\ activeAnimations' = (activeAnimations \ QueueIds(queue)) \ before
            /\ UNCHANGED <<executing, completedAnimations>>
       ELSE /\ before = executing
            /\ calls' = IF WithCleanup(executing) = {} THEN <<>>
                        ELSE <<Ev("cleanup", "a", "return")>>
            /\ cleanupsDue' = [id \in Ids |->
                                  IF id \in WithCleanup(executing)
                                  THEN cleanupsDue[id] - 1
                                  ELSE cleanupsDue[id]]
            /\ activeAnimations' = (activeAnimations \ QueueIds(queue)) \ executing
            /\ executing' = {}
            /\ completedAnimations' = {}
    /\ UNCHANGED <<maxConcurrent, frameBudget, frameStartTime, now, pc,
                   inflight, windowVars, qualityLevel, themeVars, pageVars>>

----------------------------------------------------------------------------
(* The monitor as the global queue sees it: the measure callback on a      *)
(* window of steady frames of length ft adjusts the quality and notifies   *)
(* the subscriber that getGlobalAnimationQueue() installed                 *)

SteadyFrameTimes == {1000, 1900, 2200, 3000, 4000}

\* the frame times of a page that is fast at times and overloaded at others
LoadFrameTimes == {1900, 4000}

\* getCurrentFPS() < n, the fps being Math.round(1000 / avgFrameTime)
RoundedFpsBelow(sum, len, n) == 2 * 100000 * len < (2 * n - 1) * sum

\* the limit the subscriber of the global queue passes to setMaxConcurrent
subscriberMax(sum, len) ==
    IF RoundedFpsBelow(sum, len, 30) THEN 1
    ELSE IF RoundedFpsBelow(sum, len, 45) THEN 2
    ELSE 3

MonitorAdjust(ft) ==
    /\ pc = "idle"
    /\ qualityLevel' = adjustQuality(WindowSize * ft, WindowSize, 0)
    /\ setMaxConcurrent(subscriberMax(WindowSize * ft, WindowSize))
    /\ calls' = <<>>
    /\ UNCHANGED <<queue, executing, isRunning, frameBudget, frameStartTime,
                   completedAnimations, now, pc, inflight, windowVars,
                   activeAnimations, themeVars, cleanupsDue, pageVars>>

----------------------------------------------------------------------------
(* The measure callback of the monitor, one frame after the other *)

FirstTimestamp == 500
FrameTimes == {1000, 2000, 3400}

\* the counter of dropped frames once the frame of length ft is counted
droppedAfter(ft) == IF ft > DroppedLimit THEN droppedFrames + 1 ELSE droppedFrames

\* push(frameTime) with pop() for shift(): the new frame is dropped again
pushFrameDropNewest(w, ft) ==
    IF Len(w) + 1 > WindowSize THEN w ELSE Append(w, ft)

\* frameTimings after push(frameTime) and the shift() that keeps 60 frames
pushFrame(w, ft) ==
    IF Len(w) + 1 > WindowSize THEN Tail(Append(w, ft)) ELSE Append(w, ft)

\* measure(timestamp), the frame having taken ft; the frames do not get
\* shorter while the page is measured
Measure(ft) ==
    /\ pc = "idle"
    /\ frames < MaxFrames
    /\ IF frameTimings = <<>> THEN TRUE ELSE ft >= frameTimings[Len(frameTimings)]
    /\ frames' = frames + 1
    /\ calls' = <<>>
    /\ IF lastFrameTime # 0
       THEN /\ frameTimings' = pushFrame(frameTimings, ft)
            /\ history' = Append(history, ft)
            /\ lastFrameTime' = lastFrameTime + ft
            /\ IF Len(pushFrame(frameTimings, ft)) = WindowSize
               THEN \* adjustQuality(), then notifyCallbacks()
                    /\ qualityLevel' = adjustQuality(SumSeq(pushFrame(frameTimings, ft)),
                                                     WindowSize, droppedAfter(ft))
                    /\ droppedFrames' = 0
                    /\ notifications' = notifications + 1
                    /\ setMaxConcurrent(subscriberMax(SumSeq(pushFrame(frameTimings, ft)),
                                                      WindowSize))
               ELSE /\ droppedFrames' = droppedAfter(ft)
                    /\ UNCHANGED <<qualityLevel, maxConcurrent, rafId, scheduled,
                                   notifications>>
       ELSE /\ lastFrameTime' = FirstTimestamp
            /\ UNCHANGED <<frameTimings, droppedFrames, qualityLevel,
                           maxConcurrent, rafId, scheduled, notifications,
                           history>>
    /\ UNCHANGED <<queue, executing, isRunning, frameBudget, frameStartTime,
                   completedAnimations, now, pc, inflight, activeAnimations,
                   themeVars, cleanupsDue, pageVars>>

----------------------------------------------------------------------------
(* Strings: sequences of one-character strings *)

\* String.prototype.trim() (the space is the only white space typed here)
RECURSIVE trimStart(_)
trimStart(s) ==
    IF s # <<>> /\ Head(s) = " " THEN trimStart(Tail(s)) ELSE s

RECURSIVE trimEnd(_)
trimEnd(s) ==
    IF s # <<>> /\ s[Len(s)] = " " THEN trimEnd(SubSeq(s, 1, Len(s) - 1)) ELSE s

trim(s) == trimEnd(trimStart(s))

\* String.prototype.toLowerCase() on the letters typed here
toLowerCase(s) ==
    [i \in 1..Len(s) |->
        CASE s[i] = "C" -> "c"
          [] s[i] = "H" -> "h"
          [] s[i] = "I" -> "i"
          [] s[i] = "O" -> "o"
          [] s[i] = "S" -> "s"
          [] s[i] = "T" -> "t"
          [] OTHER      -> s[i]]

\* RegExp.prototype.test() for a pattern that is a plain word
includes(s, word) ==
    \E i \in 0..(Len(s) - Len(word)) : SubSeq(s, i + 1, i + Len(word)) = word

----------------------------------------------------------------------------
(* ChatWidget *)

MaxSends == 3     \* messages the visitor sends

ChatTexts ==
    { <<>>,
      <<" ">>,
      <<"H", "i">>,
      <<" ", "c", "o", "s", "t">>,
      <<"o", "k", " ">> }

Thinking == "Thinking..."

\* ChatMessage (the id is only the key of the rendered list)
ChatMessage(role, content, pending) ==
    [role |-> role, content |-> content, pending |-> pending]

generateReply(userText) ==
    LET lower == toLowerCase(userText) IN
    IF \/ includes(lower, <<"h", "e", "l", "p">>)
       \/ includes(lower, <<"?", "e", "l", "p">>)
       \/ includes(lower, <<"s", "u", "p", "p", "o", "r", "t">>)
       \/ includes(lower, <<"h", "i">>)
       \/ includes(lower, <<"h", "e", "l", "l", "o">>)
    THEN "Hello! How can I assist with your project or questions?"
    ELSE IF \/ includes(lower, <<"p", "r", "i", "c", "e">>)
            \/ includes(lower, <<"r", "a", "t", "e">>)
            \/ includes(lower, <<"c", "o", "s", "t">>)
    THEN "I offer flexible freelance rates. Share project details and I can estimate."
    ELSE IF \/ includes(lower, <<"s", "t", "a", "c", "k">>)
            \/ includes(lower, <<"t", "e", "c", "h">>)
            \/ includes(lower, <<"t", "e", "c", "h", "n", "o", "l", "o", "g", "y">>)
    THEN "I work with Next.js, React, TypeScript, Tailwind, Node.js & 3D (three.js)."
    ELSE IF \/ includes(lower, <<"c", "o", "n", "t", "a", "c", "t">>)
            \/ includes(lower, <<"e", "m", "a", "i", "l">>)
    THEN "You can use the contact section or the email button below."
    ELSE "Got it! I'll note that. Ask about stack, pricing, or anything else."

InitChat ==
    /\ messages = <<ChatMessage("bot", "Hi! I'm Awais's assistant.", FALSE)>>
    /\ input = <<>>
    /\ timers = <<>>

\* onChange of the input
SetInput(text) ==
    /\ input' = text
    /\ UNCHANGED <<messages, timers>>
    /\ UNCHANGED <<queueVars, browserVars, monitorVars, themeVars, cleanupsDue,
                   formVars>>

\* send(), from the button or the Enter key
Send ==
    /\ Len(messages) < 1 + 2 * MaxSends
    /\ IF trim(input) = <<>>
       THEN UNCHANGED chatVars
       ELSE /\ messages' = messages \o
                  << ChatMessage("user", trim(input), FALSE),
                     ChatMessage("bot", Thinking, TRUE) >>
            /\ input' = <<>>
            /\ timers' = Append(timers, trim(input))
    /\ UNCHANGED <<queueVars, browserVars, monitorVars, themeVars, cleanupsDue,
                   formVars>>

\* the callback of the oldest 900 ms timer: every pending message gets the
\* reply to the text that timer's send() captured
Reply ==
    /\ timers # <<>>
    /\ messages' = [i \in 1..Len(messages) |->
                      IF messages[i].pending
                      THEN ChatMessage(messages[i].role,
                                       generateReply(Head(timers)), FALSE)
                      ELSE messages[i]]
    /\ timers' = Tail(timers)
    /\ UNCHANGED input
    /\ UNCHANGED <<queueVars, browserVars, monitorVars, themeVars, cleanupsDue,
                   formVars>>

----------------------------------------------------------------------------
(* EnhancedContact: the contact form *)

MaxResetTimers == 2    \* 5 s timers pending at a time

Fields == {"name", "email", "subject", "message"}

NoError == "undefined"    \* errors[field] is absent or undefined

NameValues == { <<>>, <<" ">>, <<"A", "l">> }

EmailValues ==
    { <<>>,
      <<" ">>,
      <<"a", "@", "b", ".", "c">>,
      <<"a", "@", "b", ".", "c", ".", "d">>,
      <<"a", "@", "b">>,
      <<"a", ".", "b", "@", "c">>,
      <<"a", "@", ".", "c">>,
      <<"a", "@", "b", ".">>,
      <<"@", "b", ".", "c">>,
      <<"a", "@", "b", "@", "c", ".", "d">>,
      <<"a", " ", "b", "@", "c", ".", "d">>,
      <<"a", "@", "b", ".", "c", " ">> }

SubjectValues == { <<>>, <<" ">>, <<"H", "i">> }

MessageValues ==
    { <<>>,
      <<" ", " ", " ", " ", " ", " ", " ", " ", " ", " ">>,
      <<"h", "i">>,
      <<"n", "i", "n", "e", " ", "c", "h", "a", "r">>,
      <<"t", "e", "n", " ", "c", "h", "a", "r", "s", "!">>,
      <<"h", "i", " ", " ", " ", " ", " ", " ", " ", " ">> }

ValuesOf(field) ==
    CASE field = "name"    -> NameValues
      [] field = "email"   -> EmailValues
      [] field = "subject" -> SubjectValues
      [] field = "message" -> MessageValues

EmptyForm == [f \in Fields |-> <<>>]

\* [^\s@]+ matches the whole of t
classRun(t) == t # <<>> /\ \A k \in 1..Len(t) : t[k] \notin {" ", "@"}

\* the test with the last part of the pattern, \.[^\s@]+, left out
matchesEmailNoTld(s) ==
    \E i \in 1..Len(s) :
        /\ classRun(SubSeq(s, 1, i - 1))
        /\ s[i] = "@"
        /\ classRun(SubSeq(s, i + 1, Len(s)))

\* /^[^\s@]+@[^\s@]+\.[^\s@]+$/.test(s)
matchesEmail(s) ==
    \E i \in 1..Len(s), j \in 1..Len(s) :
        /\ classRun(SubSeq(s, 1, i - 1))
        /\ s[i] = "@"
        /\ classRun(SubSeq(s, i + 1, j - 1))
        /\ s[j] = "."
        /\ classRun(SubSeq(s, j + 1, Len(s)))

\* newErrors of validateForm()
newErrors(fd) ==
    [f \in Fields |->
        CASE f = "name" ->
               IF trim(fd.name) = <<>> THEN "Name is required" ELSE NoError
          [] f = "email" ->
               IF trim(fd.email) = <<>> THEN "Email is required"
               ELSE IF ~matchesEmail(fd.email) THEN "Invalid email format"
               ELSE NoError
          [] f = "subject" ->
               IF trim(fd.subject) = <<>> THEN "Subject is required" ELSE NoError
          [] f = "message" ->
               IF trim(fd.message) = <<>> THEN "Message is required"
               ELSE IF Len(fd.message) < 10
                    THEN "Message must be at least 10 characters"
               ELSE NoError]

\* the value validateForm() returns
validateForm(fd) == \A f \in Fields : newErrors(fd)[f] = NoError

InitForm ==
    /\ formData = EmptyForm
    /\ errors = [f \in Fields |-> NoError]
    /\ isSubmitting = FALSE
    /\ submitStatus = "idle"
    /\ submitPending = FALSE
    /\ resetTimers = 0

\* handleChange: the visitor edits a field (the fields are disabled while
\* the form is being submitted)
handleChange(field, value) ==
    /\ ~isSubmitting
    /\ formData' = [formData EXCEPT ![field] = value]
    /\ errors' = IF errors[field] # NoError
                 THEN [errors EXCEPT ![field] = NoError]
                 ELSE errors
    /\ UNCHANGED <<isSubmitting, submitStatus, submitPending, resetTimers>>
    /\ UNCHANGED <<queueVars, browserVars, monitorVars, themeVars, cleanupsDue,
                   chatVars>>

\* handleSubmit up to its await (the submit button is disabled while the
\* form is being submitted)
handleSubmit ==
    /\ ~isSubmitting
    /\ resetTimers < MaxResetTimers
    /\ errors' = newErrors(formData)
    /\ IF validateForm(formData)
       THEN /\ isSubmitting' = TRUE
            /\ submitStatus' = "idle"
            /\ submitPending' = TRUE
       ELSE UNCHANGED <<isSubmitting, submitStatus, submitPending>>
    /\ UNCHANGED <<formData, resetTimers>>
    /\ UNCHANGED <<queueVars, browserVars, monitorVars, themeVars, cleanupsDue,
                   chatVars>>

\* handleSubmit after its await: the 2 s timer fired
SubmitDone ==
    /\ submitPending
    /\ submitPending' = FALSE
    /\ submitStatus' = "success"
    /\ formData' = EmptyForm
    /\ resetTimers' = resetTimers + 1
    /\ isSubmitting' = FALSE
    /\ UNCHANGED errors
    /\ UNCHANGED <<queueVars, browserVars, monitorVars, themeVars, cleanupsDue,
                   chatVars>>

\* the callback of a 5 s timer
ResetStatus ==
    /\ resetTimers > 0
    /\ resetTimers' = resetTimers - 1
    /\ submitStatus' = "idle"
    /\ UNCHANGED <<formData, errors, isSubmitting, submitPending>>
    /\ UNCHANGED <<queueVars, browserVars, monitorVars, themeVars, cleanupsDue,
                   chatVars>>

----------------------------------------------------------------------------
(* The queue, driven by its callers, the browser and the monitor *)

Init ==
    /\ queue = <<>>
    /\ executing = {}
    /\ maxConcurrent = DefaultMaxConcurrent
    /\ frameBudget = DefaultFrameBudget
    /\ frameStartTime = 0
    /\ completedAnimations = {}
    \* getGlobalAnimationQueue() constructs with autoStart: the constructor
    \* calls start(), which requests the first frame callback
    /\ isRunning = TRUE
    /\ rafId = NewHandle({})
    /\ scheduled = {NewHandle({})}
    /\ now = ClockBase
    /\ pc = "idle"
    /\ inflight = [id \in Ids |-> 0]
    /\ calls = <<>>
    /\ frameTimings = <<>>
    /\ lastFrameTime = 0
    /\ droppedFrames = 0
    /\ frames = 0
    /\ qualityLevel = "high"
    /\ activeAnimations = {}
    /\ theme = "dark"
    /\ clicks = 0
    /\ setThemeCalls = 0
    /\ notifications = 0
    /\ history = <<>>
    /\ cleanupsDue = [id \in Ids |-> 0]
    /\ InitChat
    /\ InitForm

Next ==
    \/ \E item \in Items : Add(item)
    \/ Start
    \/ Pause
    \/ \E p \in AnimationPriority : Clear(p)
    \/ ClearAll
    \/ \E h \in Handles : FrameBegin(h)
    \/ \E d \in WorkTimes : ProcessItem(d)
    \/ FrameEnd
    \/ \E id \in Ids, result \in {"resolve", "reject"}, c \in BOOLEAN :
         Settle(id, result, c)
    \/ \E ft \in SteadyFrameTimes : MonitorAdjust(ft)

Spec == Init /\ [][Next]_vars

\* the monitor alone, frame by frame
NextMonitor == \E ft \in FrameTimes : Measure(ft)

SpecMonitor == Init /\ [][NextMonitor]_vars

\* the theme button on the running global queue, with frame callbacks firing
NextTheme ==
    \/ Click
    \/ \E h \in Handles : FrameBegin(h)
    \/ \E d \in WorkTimes : ProcessItem(d)
    \/ FrameEnd
    \/ \E ft \in SteadyFrameTimes : MonitorAdjust(ft)

SpecTheme ==
    /\ Init
    /\ [][NextTheme]_vars
    /\ WF_vars(\E h \in Handles : FrameBegin(h))
    /\ WF_vars(\E d \in WorkTimes : ProcessItem(d))
    /\ WF_vars(FrameEnd)

\* the running global queue with frame callbacks firing and every started
\* execution finishing
NextLive ==
    \/ \E item \in Items : Add(item)
    \/ \E h \in Handles : FrameBegin(h)
    \/ \E d \in WorkTimes : ProcessItem(d)
    \/ FrameEnd
    \/ \E id \in Ids, result \in {"resolve", "reject"}, c \in BOOLEAN :
         Settle(id, result, c)
    \/ \E ft \in LoadFrameTimes : MonitorAdjust(ft)

SpecLive ==
    /\ Init
    /\ [][NextLive]_vars
    /\ WF_vars(\E h \in Handles : FrameBegin(h))
    /\ WF_vars(\E d \in WorkTimes : ProcessItem(d))
    /\ WF_vars(FrameEnd)
    /\ \A id \in Ids :
         SF_vars(\E result \in {"resolve", "reject"}, c \in BOOLEAN :
                    Settle(id, result, c))

\* the queue with callers that pause and resume it, also from execute()
NextPause ==
    \/ \E item \in Items : Add(item)
    \/ Start
    \/ Pause
    \/ \E h \in Handles : FrameBegin(h)
    \/ \E d \in WorkTimes : ProcessItem(d)
    \/ \E d \in WorkTimes : ProcessItemPausing(d)
    \/ FrameEnd
    \/ \E id \in Ids, result \in {"resolve", "reject"}, c \in BOOLEAN :
         Settle(id, result, c)

SpecPause == Init /\ [][NextPause]_vars

\* the queue until and after it is destroyed
NextDestroy ==
    \/ \E item \in Items : Add(item)
    \/ \E h \in Handles : FrameBegin(h)
    \/ \E d \in WorkTimes : ProcessItem(d)
    \/ FrameEnd
    \/ \E id \in Ids, result \in {"resolve", "reject"}, c \in BOOLEAN :
         Settle(id, result, c)
    \/ \E c \in BOOLEAN, before \in SUBSET Ids : Destroy(c, before)

SpecDestroy == Init /\ [][NextDestroy]_vars

\* the chat widget: the visitor types and sends, the reply timers fire
NextChat ==
    \/ \E text \in ChatTexts : SetInput(text)
    \/ Send
    \/ Reply

SpecChat == Init /\ [][NextChat]_vars /\ WF_vars(Reply)

\* the contact form
NextForm ==
    \/ \E field \in Fields : \E value \in ValuesOf(field) : handleChange(field, value)
    \/ handleSubmit
    \/ SubmitDone
    \/ ResetStatus

SpecForm == Init /\ [][NextForm]_vars

TypeOK ==
    /\ queue \in Seq(AnimationQueueItem)
    /\ executing \subseteq AllIds
    /\ maxConcurrent \in 1..DefaultMaxConcurrent
    /\ isRunning \in BOOLEAN
    /\ rafId \in Handles \cup {NoRaf}
    /\ scheduled \subseteq Handles
    /\ completedAnimations \subseteq AllIds
    /\ pc \in {"idle", "frame"}
    /\ qualityLevel \in QualityLevel
    /\ activeAnimations \subseteq AllIds

----------------------------------------------------------------------------
(* Properties *)

Sorted(q) == \A i, j \in 1..Len(q) : i < j => q[i].priority <= q[j].priority

Without(q, k) == SubSeq(q, 1, k - 1) \o SubSeq(q, k + 1, Len(q))

RECURSIVE IsSubSeq(_, _)
IsSubSeq(sub, q) ==
    IF sub = <<>> THEN TRUE
    ELSE IF q = <<>> THEN FALSE
    ELSE IF Head(sub) = Head(q) THEN IsSubSeq(Tail(sub), Tail(q))
    ELSE IsSubSeq(sub, Tail(q))

\* the step dequeued the head of the queue and started it
StartedHead ==
    /\ pc = "frame" /\ pc' = "frame"
    /\ calls' # <<>>
    /\ calls'[1].fn = "execute"

\* the step dequeued the head of the queue and skipped it
SkippedHead ==
    /\ pc = "frame" /\ pc' = "frame"
    /\ calls' # <<>>
    /\ calls'[1].fn = "skip"

C1_StepKeepsOrder ==
    /\ Len(queue') > Len(queue) =>
         \E k \in 1..Len(queue') :
            /\ Without(queue', k) = queue
            /\ \A i \in 1..(k - 1) : queue'[i].priority <= queue'[k].priority
            /\ \A i \in (k + 1)..Len(queue') : queue'[i].priority > queue'[k].priority
    /\ Len(queue') <= Len(queue) => IsSubSeq(queue', queue)
    /\ StartedHead \/ SkippedHead =>
         /\ queue # <<>>
         /\ calls'[1].id = Head(queue).id
         /\ calls'[1].priority = Head(queue).priority
         /\ queue' = Tail(queue)

\* C1: the pending queue is always sorted by non-decreasing priority value;
\* add() puts the item behind every queued item of the same or a smaller
\* priority value and leaves the others in their order, clear() and the
\* processor keep the order of the items that stay, and the item the
\* processor starts or skips is the head of the queue.
C1_QueueOrder == [](Sorted(queue)) /\ [][C1_StepKeepsOrder]_vars

C1_Witness ==
    /\ Len(queue) >= 2
    /\ queue[1].priority = queue[2].priority
    /\ queue[1].id # queue[2].id

\* C2 as stated: the number of executions started and not finished never
\* exceeds the current maxConcurrent.
C2_Original == InFlightTotal <= maxConcurrent

\* C2, amended: an execution is started only while the executing set holds
\* fewer ids than the current maxConcurrent, so a start never takes the
\* executing set beyond the limit.
C2_StartsBelowLimit ==
    [][StartedHead =>
         /\ Cardinality(executing) < maxConcurrent
         /\ Cardinality(executing') <= maxConcurrent']_vars

C2_Witness ==
    /\ pc = "frame"
    /\ queue # <<>>
    /\ hasFrameBudget
    /\ Cardinality(executing) = maxConcurrent

\* C3: for every id at most one execution of an item with that id is in
\* progress.
C3_NoOverlap == \A id \in Ids : InFlightOf(id) <= 1

\* C4: add(item) changes nothing of the queue, the executing set, the
\* completed set and the monitor's registrations when item.id is executing
\* or completed; otherwise it inserts the item into the queue, leaving the
\* queued items in place, and registers its id with the monitor.
C4_AddEffect ==
    [][\A item \in Items :
         Add(item) =>
           IF item.id \in executing \/ item.id \in completedAnimations
           THEN UNCHANGED <<queue, executing, completedAnimations,
                            activeAnimations, inflight, rafId, scheduled>>
           ELSE /\ \E k \in 1..Len(queue') :
                     queue'[k] = item /\ Without(queue', k) = queue
                /\ activeAnimations' = activeAnimations \cup {item.id}
                /\ UNCHANGED <<executing, completedAnimations, inflight>>]_vars

C4_Witness ==
    /\ pc = "idle"
    /\ executing # {}
    /\ completedAnimations # {}
    /\ queue # <<>>

\* the measure step reached adjustQuality()
C5_Adjusted ==
    /\ frames' = frames + 1
    /\ lastFrameTime # 0
    /\ Len(frameTimings') = WindowSize

\* fps >= n for the window after the step: 1000 / (sum / length), in ms
C5_Fps(n) == 1000 * Len(frameTimings') * 100 >= n * SumSeq(frameTimings')

\* r < pct / 100, r being the frames counted as dropped since the last
\* adjustment, this frame included, over the length of the window
C5_Ratio(pct) ==
    (droppedFrames + (IF frameTimings'[Len(frameTimings')] > 3300 THEN 1 ELSE 0))
      * 100 < pct * Len(frameTimings')

C5_Level ==
    LET ultra  == C5_Fps(55) /\ C5_Ratio(5)
        high   == ~ultra /\ C5_Fps(50) /\ C5_Ratio(10)
        medium == ~ultra /\ ~high /\ C5_Fps(40) /\ C5_Ratio(15)
        low    == ~ultra /\ ~high /\ ~medium /\ C5_Fps(30)
    IN  /\ (qualityLevel' = "ultra") <=> ultra
        /\ (qualityLevel' = "high") <=> high
        /\ (qualityLevel' = "medium") <=> medium
        /\ (qualityLevel' = "low") <=> low
        /\ (qualityLevel' = "minimal") <=> ~(ultra \/ high \/ medium \/ low)

C6_CriticalNeverSkipped ==
    /\ [](\A q \in QualityLevel, n \in 0..12 :
            ~shouldSkipAnimation(q, 1..n, CRITICAL))
    /\ [][(/\ pc = "frame" /\ pc' = "frame"
           /\ queue # <<>>
           /\ queue' = Tail(queue)
           /\ Head(queue).priority = CRITICAL)
          => (StartedHead /\ calls'[1].id = Head(queue).id)]_vars

C6_Witness ==
    /\ pc = "frame"
    /\ qualityLevel = "minimal"
    /\ Cardinality(activeAnimations) >= 1
    /\ calls # <<>>
    /\ calls[1].fn = "execute"
    /\ calls[1].priority = CRITICAL

\* C7: while the level is 'minimal' only CRITICAL items are started, and
\* while it is 'low' only CRITICAL and HIGH items are started.
C7_OnlyCriticalAtMinimal ==
    [][StartedHead =>
         /\ qualityLevel = "minimal" => calls'[1].priority = CRITICAL
         /\ qualityLevel = "low" => calls'[1].priority \in {CRITICAL, HIGH}]_vars

\* the quality-adjusted frame budget
C8_Budget ==
    IF qualityLevel = "minimal" THEN 800
    ELSE IF qualityLevel = "low" THEN 1200
    ELSE IF qualityLevel = "medium" THEN 1600
    ELSE frameBudget

\* C8: within a frame callback an animation is started only while the time
\* elapsed since the callback began is below the quality-adjusted budget,
\* and a callback that ends with items left in the queue has requested the
\* next frame callback.
C8_NoStartPastBudget ==
    [][/\ StartedHead => now - ClockBase < C8_Budget
       /\ (pc = "frame" /\ pc' = "idle" /\ queue' # <<>>) => rafId' \in scheduled']_vars

C8_Witness ==
    /\ pc = "frame"
    /\ queue # <<>>
    /\ Cardinality(executing) < maxConcurrent
    /\ now - ClockBase >= C8_Budget

Failed(e) ==
    \/ e.fn = "execute" /\ e.result = "throw"
    \/ e.fn = "settle" /\ e.result = "reject"
    \/ e.fn = "cleanup" /\ e.result = "throw"

\* C9: when execute() throws, its promise rejects or cleanup() throws, the
\* cleanup of an item that has one is still called, the id leaves the
\* executing set and the monitor's registrations, the handler goes on as
\* usual (the loop with the next item, no change to the queue from a
\* settling promise) and a running queue with items left has a frame
\* callback pending.
C9_FailureContained ==
    [][(calls' # <<>> /\ \E i \in 1..Len(calls') : Failed(calls'[i])) =>
         /\ hasCleanup(calls'[1].id) =>
              \E i \in 1..Len(calls') :
                 calls'[i].fn = "cleanup" /\ calls'[i].id = calls'[1].id
         /\ calls'[1].id \notin executing'
         /\ calls'[1].id \notin activeAnimations'
         /\ pc' = pc
         /\ UNCHANGED <<isRunning, rafId, scheduled>>
         /\ IF pc = "frame" THEN queue' = Tail(queue) ELSE queue' = queue
         /\ (pc' = "idle" /\ isRunning' /\ queue' # <<>>) => rafId' \in scheduled']_vars

C9_Witness ==
    /\ pc = "idle"
    /\ isRunning
    /\ queue # <<>>
    /\ Len(calls) = 2
    /\ calls[1].fn = "settle" /\ calls[1].result = "reject"
    /\ calls[2].fn = "cleanup" /\ calls[2].result = "throw"

\* C10: every click on the theme button is eventually followed by a call of
\* setTheme of its own: the k-th click leads to at least k calls.
C10_EveryClickToggles ==
    \A k \in 1..MaxClicks : (clicks >= k) ~> (setThemeCalls >= k)

\* C11: every message of the visitor is followed at once by a bot message,
\* which, once it is no longer pending, holds the reply generated from that
\* message's text.
C11_AnsweredFromOwnText ==
    \A i \in 1..Len(messages) :
        messages[i].role = "user" =>
            /\ i < Len(messages)
            /\ messages[i + 1].role = "bot"
            /\ ~messages[i + 1].pending =>
                  messages[i + 1].content = generateReply(messages[i].content)

NonBlank(s) == \E i \in 1..Len(s) : s[i] # " "

\* local@domain.tld: one "@" with something before it, and after it a "."
\* that is neither the first nor the last character; no white space
C12_EmailShape(s) ==
    /\ \A i \in 1..Len(s) : s[i] # " "
    /\ Cardinality({i \in 1..Len(s) : s[i] = "@"}) = 1
    /\ s[1] # "@"
    /\ \E j \in 1..Len(s) :
          /\ s[j] = "."
          /\ j < Len(s)
          /\ \E i \in 1..(j - 2) : s[i] = "@"

C12_Offending(f) ==
    CASE f = "email"   -> ~(NonBlank(formData.email) /\ C12_EmailShape(formData.email))
      [] f = "message" -> ~(NonBlank(formData.message) /\ Len(formData.message) >= 10)
      [] OTHER         -> ~NonBlank(formData[f])

\* C12: handleSubmit sets isSubmitting exactly when no field offends (all
\* four non-blank, the email of the shape local@domain.tld without white
\* space, the message of 10 characters or more); otherwise it records an
\* error for each offending field and for no other, and leaves formData,
\* isSubmitting and submitStatus unchanged.
C12_SubmitOnlyIfValid ==
    [][handleSubmit =>
         IF \A f \in Fields : ~C12_Offending(f)
         THEN isSubmitting' /\ submitPending' /\ formData' = formData
         ELSE /\ \A f \in Fields : (errors'[f] # NoError) <=> C12_Offending(f)
              /\ UNCHANGED <<formData, isSubmitting, submitStatus, submitPending>>]_vars

C12_Witness ==
    /\ ~isSubmitting
    /\ errors["email"] = "Invalid email format"
    /\ errors["message"] = "Message must be at least 10 characters"
    /\ errors["name"] = NoError
    /\ formData.email = <<"a", "@", "b", ".", "c", " ">>

\* the last n elements of a sequence (all of it when it is shorter)
LastN(h, n) == IF Len(h) <= n THEN h ELSE SubSeq(h, Len(h) - n + 1, Len(h))

\* C13: the window never holds more than 60 frame times, and it is the last
\* 60 of the frame times measured so far (all of them while there are fewer),
\* in the order of their arrival.
C13_RollingWindow ==
    /\ Len(frameTimings) <= 60
    /\ frameTimings = LastN(history, 60)

C13_Witness ==
    /\ Len(history) > 60
    /\ history[1] # history[Len(history)]
    /\ frameTimings[1] = history[Len(history) - 59]

\* C14: the subscribers are notified once for every 60 frame times measured:
\* after n frame times there have been at most n / 60 notifications.
C14_OncePerSixtyFrames == notifications * 60 <= Len(history)

\* C15 as stated: with the queue running, frame callbacks firing and every
\* execution finishing, the pending queue eventually becomes empty.
C15_Original == (queue # <<>>) ~> (queue = <<>>)

\* C15, amended: unless add() keeps being called for ever, the pending
\* queue eventually becomes empty; and a process callback ends without
\* requesting the next one only when the queue and the executing set are
\* both empty.
C15_QueueDrains ==
    /\ \/ []<><<\E item \in Items : Add(item)>>_vars
       \/ (queue # <<>>) ~> (queue = <<>>)
    /\ [][(pc = "frame" /\ pc' = "idle" /\ rafId' \notin scheduled')
            => (queue' = <<>> /\ executing' = {})]_vars

C15_Witness ==
    /\ pc = "idle"
    /\ queue = <<>>
    /\ executing = {}
    /\ rafId = NoRaf
    /\ completedAnimations = Ids

\* C16: while the queue is paused (from the return of pause() to the next
\* start() or resume()) no queued animation is started and, between the
\* handlers, no frame callback of the queue is scheduled.
C16_PausedIsQuiet ==
    /\ []((~isRunning /\ pc = "idle") => scheduled = {})
    /\ [][~isRunning => ~StartedHead]_vars

\* C17: the cleanup of an item is never called more often than executions
\* of it were started, and it has been called for every execution that is
\* over; and once the queue is destroyed, the queue, the executing set and
\* the completed set are empty for as long as nothing is added (the queue
\* is stopped only by destroy() here, and stays empty until an add()).
C17_CleanupOnceAndEmptied ==
    /\ \A id \in Ids : cleanupsDue[id] >= 0
    /\ \A id \in Ids : hasCleanup(id) => cleanupsDue[id] <= inflight[id]
    /\ \A id \in Ids : (hasCleanup(id) /\ inflight[id] = 0) => cleanupsDue[id] = 0
    /\ (~isRunning /\ queue = <<>>) =>
          (executing = {} /\ completedAnimations = {})

\* the positions of the queued items clear(p) removes
C18_Removed(p) == {i \in 1..Len(queue) : queue[i].priority = p}

\* C18: clear(p) leaves the queued items of the other priorities, all of
\* them and in their order, and unregisters the ids of the removed ones;
\* clear() empties the queue and unregisters every queued id; neither
\* changes the executing set, the completed set, maxConcurrent or the
\* running flag.
C18_ClearEffect ==
    [][/\ \A p \in AnimationPriority :
            Clear(p) =>
              /\ IsSubSeq(queue', queue)
              /\ \A i \in 1..Len(queue') : queue'[i].priority # p
              /\ Len(queue') = Len(queue) - Cardinality(C18_Removed(p))
              /\ activeAnimations' =
                   activeAnimations \ {queue[i].id : i \in C18_Removed(p)}
              /\ UNCHANGED <<executing, completedAnimations, maxConcurrent,
                             isRunning, inflight>>
       /\ ClearAll =>
              /\ queue' = <<>>
              /\ activeAnimations' = activeAnimations \ QueueIds(queue)
              /\ UNCHANGED <<executing, completedAnimations, maxConcurrent,
                             isRunning, inflight>>]_vars

C18_Witness ==
    /\ pc = "idle"
    /\ Len(queue) = 2
    /\ queue[1].priority < queue[2].priority
    /\ queue[1].id # queue[2].id
    /\ queue[1].id \in activeAnimations
    /\ ~isRunning

\* C19: a skipped item leaves the queue and the monitor's registrations,
\* none of its callbacks is called, and its id is neither completed nor
\* executing afterwards, so that add() accepts the id again.
C19_SkippedCanBeAddedAgain ==
    [][SkippedHead =>
         /\ queue' = Tail(queue)
         /\ calls' = <<RunEv("skip", Head(queue), "skip")>>
         /\ Head(queue).id \notin activeAnimations'
         /\ UNCHANGED <<executing, completedAnimations, inflight, cleanupsDue>>
         /\ Head(queue).id \notin completedAnimations'
         /\ Head(queue).id \notin executing']_vars

\* C20: the monitor's active-animation set is the set of the ids that are
\* queued or executing.
C20_ActiveIsQueuedOrExecuting ==
    activeAnimations = QueueIds(queue) \cup executing

====
